---------------------------- MODULE Spec2Model ----------------------------
(***************************************************************************)
(* The stacked-dialog registry of dialux (packages/dialux/index.tsx, as    *)
(* shipped in PUBLISH.md): DialogProvider's `dialogs` state with its       *)
(* openDialog / closeDialog / clearDialogs updaters, the host dialog whose *)
(* open state DialogRootContent forwards to the primitive toolkit, the     *)
(* click handlers that mutate the registry, and DialogStack's computation  *)
(* of the open subset, the positions and the resting transforms.           *)
(***************************************************************************)
EXTENDS Integers, Sequences, FiniteSets, TLC

(***************************************************************************)
(* Bounds of the model.                                                    *)
(***************************************************************************)
\* Longest descriptor list handed to Root.
MaxDialogs == 3

\* The most descriptors of a Root whose stack is looked at in depth
MaxStacked == 5

\* The ids callers give their descriptors; the first MaxDialogs of them are used.
IdNames == <<"first", "second", "third", "fourth", "fifth", "sixth", "seventh">>

Ids == {IdNames[i] : i \in 1..MaxDialogs}

\* An id no descriptor of any registry has.
MissingId == "missing"

\* A dialogId that is undefined or empty: `if (dialogId)` is false for both.
NoId == ""

\* The ids the buttons (StackAdd, StackRemove, Trigger) may carry.
OpIds == Ids \cup {MissingId}

\* DialogProps.open as the caller writes it: omitted, true or false.
OpenProp == {"undefined", "true", "false"}

(***************************************************************************)
(* Default tunables of DialogStack; scale and opacity in hundredths.       *)
(***************************************************************************)
offsetY == 24

offsetScale == 5

offsetOpacity == 33

VARIABLES
    dialogs,          \* DialogProvider's state: the registry, a sequence of descriptors
    initialDialogs,   \* history: the id and content of each descriptor Root was first rendered with
    hostOpen,         \* the open state of the host dialog (RadixDialogPrimitive.Root)
    controlled,       \* whether the caller passes `open` to Root (controlled host)
    openOrder,        \* history: registry indices of the open descriptors, by time of their latest open(id)
    lastOp,           \* history: the handler that ran last, the id it carried, the props it read
    pending,          \* the calls a handler has made that React has not committed yet
    other             \* a second Root in the same tree: its registry and its host's open state

vars == <<dialogs, initialDialogs, hostOpen, controlled, openOrder, lastOp, pending, other>>

(***************************************************************************)
(* Helpers on sequences.                                                   *)
(***************************************************************************)
\* Array.prototype.map
Map(s, f(_)) == [i \in 1..Len(s) |-> f(s[i])]

\* Injective sequences over S of length n.
Perms(S, n) == {s \in [1..n -> S] : \A i, j \in 1..n : i # j => s[i] # s[j]}

(***************************************************************************)
(* The descriptor lists a caller may pass: unique ids (the caller's        *)
(* obligation), each open field omitted, true or false; the content of the *)
(* descriptor written at place i of the list is the element i.             *)
(***************************************************************************)
DescriptorLists ==
    UNION {
        {[i \in 1..n |-> [id |-> ids[i], open |-> opens[i], dialog |-> i]] :
            ids \in Perms(Ids, n), opens \in [1..n -> OpenProp]}
        : n \in 0..MaxDialogs}

\* No `dialogs` prop.
NoProps == [present |-> FALSE, list |-> <<>>]

\* The `dialogs` prop: absent, or a list.
DialogsProps == {NoProps} \cup {[present |-> TRUE, list |-> l] : l \in DescriptorLists}

(***************************************************************************)
(* DialogProvider                                                          *)
(***************************************************************************)
\* the default written as `dialog.open ?? true`
openOrTrue(o) == o # "false"

\* dialog.open ?? false
openOrFalse(o) == o = "true"

\* useState initializer: initialDialogs?.map(d => ({...d, open: d.open ?? false})) || []
initDialogs(props) ==
    IF props.present
    THEN Map(props.list, LAMBDA d : [id |-> d.id, open |-> openOrFalse(d.open), dialog |-> d.dialog])
    ELSE <<>>

\* openDialog writing `open: !dialog.open` (a toggle) instead of `open: true`
openDialogToggling(prevDialogs, id) ==
    Map(prevDialogs, LAMBDA dialog :
        IF dialog.id = id THEN [dialog EXCEPT !.open = ~dialog.open] ELSE dialog)

\* openDialog that adds an open descriptor (content 0) when no descriptor has the id
openDialogUpserting(prevDialogs, id) ==
    IF \E i \in 1..Len(prevDialogs) : prevDialogs[i].id = id
    THEN Map(prevDialogs, LAMBDA dialog :
             IF dialog.id = id THEN [dialog EXCEPT !.open = TRUE] ELSE dialog)
    ELSE Append(prevDialogs, [id |-> id, open |-> TRUE, dialog |-> 0])

\* useState taking its argument on every render
useStateEveryRender(first, initialState, state) == initialState

\* useState(initializer): the initial state counts on the first render of
\* the component only; later renders return the state as it is.
useState(first, initialState, state) == IF first THEN initialState ELSE state

\* openDialog opening only the last of the descriptors that have the id
openDialogLastOnly(prevDialogs, id) ==
    [i \in 1..Len(prevDialogs) |->
        IF prevDialogs[i].id = id /\ (\A j \in (i + 1)..Len(prevDialogs) : prevDialogs[j].id # id)
        THEN [prevDialogs[i] EXCEPT !.open = TRUE]
        ELSE prevDialogs[i]]

\* openDialog moving the opened descriptor to the end of the registry
openDialogMovingLast(prevDialogs, id) ==
    SelectSeq(prevDialogs, LAMBDA dialog : dialog.id # id)
    \o Map(SelectSeq(prevDialogs, LAMBDA dialog : dialog.id = id),
           LAMBDA dialog : [dialog EXCEPT !.open = TRUE])

\* openDialog's updater
openDialog(prevDialogs, id) ==
    Map(prevDialogs, LAMBDA dialog :
        IF dialog.id = id THEN [dialog EXCEPT !.open = TRUE] ELSE dialog)

\* closeDialog writing `open: !dialog.open` (a toggle) instead of `open: false`
closeDialogToggling(prevDialogs, id) ==
    Map(prevDialogs, LAMBDA dialog :
        IF dialog.id = id THEN [dialog EXCEPT !.open = ~dialog.open] ELSE dialog)

\* closeDialog that removes the descriptor: prevDialogs.filter((dialog) => dialog.id !== id)
closeDialogRemoving(prevDialogs, id) ==
    SelectSeq(prevDialogs, LAMBDA dialog : dialog.id # id)

\* closeDialog without the id test: every descriptor is closed
closeDialogAll(prevDialogs, id) ==
    Map(prevDialogs, LAMBDA dialog : [dialog EXCEPT !.open = FALSE])

\* closeDialog's updater
closeDialog(prevDialogs, id) ==
    Map(prevDialogs, LAMBDA dialog :
        IF dialog.id = id THEN [dialog EXCEPT !.open = FALSE] ELSE dialog)

\* clearDialogs writing `open: !dialog.open` instead of `open: false`
clearDialogsToggling(prevDialogs) ==
    Map(prevDialogs, LAMBDA dialog : [dialog EXCEPT !.open = ~dialog.open])

\* clearDialogs' updater; its guard `if (dialogs)` is true of every array
clearDialogs(prevDialogs) ==
    Map(prevDialogs, LAMBDA dialog : [dialog EXCEPT !.open = FALSE])

(***************************************************************************)
(* DialogStack                                                             *)
(***************************************************************************)
\* the filter followed by .reverse()
openDialogsReversed(ds) ==
    LET open == SelectSeq(ds, LAMBDA dialog : dialog.open)
    IN  [k \in 1..Len(open) |-> open[Len(open) - k + 1]]

\* dialogs.filter((dialog) => dialog.open)
openDialogs(ds) == SelectSeq(ds, LAMBDA dialog : dialog.open)

\* position written without the `- 1`
positionOffByOne(length, index) == length - index

\* position counted from the back of the registry instead of the front
positionReversed(length, index) == index

\* const position = openDialogs.length - index - 1   (index counts from 0)
position(length, index) == length - index - 1

\* zIndex: openDialogs.length - position
zIndex(length, pos) == length - pos

\* animate with the scale step used for the opacity as well
animateOpacityByScale(length, pos, oY, oScale, oOpacity) ==
    [zIndex  |-> length - pos,
     y       |-> pos * (-oY),
     scale   |-> 100 - oScale * pos,
     opacity |-> 100 - oScale * pos]

\* animate with the opacity kept from going below zero
animateOpacityClamped(length, pos, oY, oScale, oOpacity) ==
    [zIndex  |-> length - pos,
     y       |-> pos * (-oY),
     scale   |-> 100 - oScale * pos,
     opacity |-> IF oOpacity * pos > 100 THEN 0 ELSE 100 - oOpacity * pos]

\* The resting transform of the item at `pos`; scale and opacity in hundredths.
animate(length, pos, oY, oScale, oOpacity) ==
    [zIndex  |-> zIndex(length, pos),
     y       |-> pos * (-oY),
     scale   |-> 100 - oScale * pos,
     opacity |-> 100 - oOpacity * pos]

\* openDialogs.map((dialog, index) => ...): what DialogStack renders, back to front
DialogStack(ds, oY, oScale, oOpacity) ==
    LET open == openDialogs(ds)
    IN  [k \in 1..Len(open) |->
            LET pos == position(Len(open), k - 1)
            IN  [animate  |-> animate(Len(open), pos, oY, oScale, oOpacity),
                 id       |-> open[k].id,
                 dialog   |-> open[k].dialog,
                 position |-> pos]]

\* The stack with the default tunables.
Stack(ds) == DialogStack(ds, offsetY, offsetScale, offsetOpacity)

(***************************************************************************)
(* History of the open(id) calls.                                          *)
(***************************************************************************)
Matching(ds, id) == {i \in 1..Len(ds) : ds[i].id = id}

Without(order, S) == SelectSeq(order, LAMBDA i : i \notin S)

RECURSIVE Ascending(_)
Ascending(S) ==
    IF S = {} THEN <<>>
    ELSE LET m == CHOOSE x \in S : \A y \in S : x <= y
         IN  <<m>> \o Ascending(S \ {m})

orderAfterOpen(order, ds, id) == Without(order, Matching(ds, id)) \o Ascending(Matching(ds, id))

orderAfterClose(order, ds, id) == Without(order, Matching(ds, id))

(***************************************************************************)
(* DialogRootContent                                                       *)
(***************************************************************************)
\* handleOpenChange's effect on the registry: clearDialogs() when the host closes
handleOpenChange(ds, open) == IF ~open THEN clearDialogs(ds) ELSE ds

\* The host's open state after the toolkit reports `next`: an uncontrolled
\* host takes it; a controlled host shows what its parent then passes, which
\* is `next` when onOpenChange stores it and the old value when it does not.
HostAfter(next) ==
    IF controlled THEN {next, hostOpen} ELSE {next}

IdsIn(list) == {list[i].id : i \in 1..Len(list)}

\* The fields of a descriptor that no updater writes.
Fixed(ds) == Map(ds, LAMBDA d : [id |-> d.id, dialog |-> d.dialog])

\* No second Root
NoRoot == [dialogs |-> <<>>, hostOpen |-> FALSE]

\* No error thrown
NoError == ""

\* The Roots around a component, the outermost first; <<1>> is directly
\* inside the Root of `dialogs`.
InRoot == <<1>>

Op(kind, id) ==
    [id |-> id, props |-> NoProps, kind |-> kind, overridden |-> FALSE, prevented |-> FALSE,
     component |-> "", site |-> InRoot, error |-> NoError]

\* Root's first render: DialogProvider builds the registry from the `dialogs`
\* prop; the host starts open or closed, controlled or not, as Root's other
\* props say.
Init ==
    \E props \in DialogsProps :
        /\ dialogs = initDialogs(props)
        /\ initialDialogs = Fixed(props.list)
        /\ hostOpen \in BOOLEAN
        /\ controlled \in BOOLEAN
        /\ openOrder = <<>>
        /\ lastOp = [Op("init", NoId) EXCEPT !.props = props]
        /\ pending = <<>>
        /\ other = NoRoot

\* DialogStackAdd.handleClick
DialogStackAdd(dialogId) ==
    /\ dialogs' = openDialog(dialogs, dialogId)
    /\ openOrder' = orderAfterOpen(openOrder, dialogs, dialogId)
    /\ lastOp' = Op("StackAdd", dialogId)
    /\ UNCHANGED <<initialDialogs, hostOpen, controlled, pending, other>>

\* DialogStackRemove.handleClick
DialogStackRemove(dialogId) ==
    /\ dialogs' = closeDialog(dialogs, dialogId)
    /\ openOrder' = orderAfterClose(openOrder, dialogs, dialogId)
    /\ lastOp' = Op("StackRemove", dialogId)
    /\ UNCHANGED <<initialDialogs, hostOpen, controlled, pending, other>>

\* The calls a handler makes, in the order it makes them.
Call(name, id) == [id |-> id, call |-> name]

\* What one call does to the registry
applyCall(ds, c) ==
    CASE c.call = "openDialog"   -> openDialog(ds, c.id)
      [] c.call = "closeDialog"  -> closeDialog(ds, c.id)
      [] c.call = "clearDialogs" -> clearDialogs(ds)
      [] OTHER                   -> ds

\* The calls that change the registry
Mutations(calls) ==
    SelectSeq(calls, LAMBDA c : c.call \in {"openDialog", "closeDialog", "clearDialogs"})

\* Only the first mutation of a handler taking effect, the later ones lost
applyCallsFirstOnly(ds, calls) ==
    IF Mutations(calls) = <<>> THEN ds ELSE applyCall(ds, Mutations(calls)[1])

RECURSIVE applyCalls(_, _)
applyCalls(ds, calls) ==
    IF calls = <<>> THEN ds ELSE applyCalls(applyCall(ds, Head(calls)), Tail(calls))

\* handleOpenChange: the caller's onOpenChange (if any), then clearDialogs()
\* when the host closes
handleOpenChangeCalls(open) ==
    IF open THEN <<Call("onOpenChange(true)", NoId)>>
    ELSE <<Call("onOpenChange(false)", NoId), Call("clearDialogs", NoId)>>

\* DialogTrigger.handleClick: the caller's onClick (if any), then
\* openDialog(dialogId) (if a dialogId was given)
handleClick(onClick, dialogId) ==
    (IF onClick # "undefined" THEN <<Call("onClick", NoId)>> ELSE <<>>)
    \o (IF dialogId # NoId THEN <<Call("openDialog", dialogId)>> ELSE <<>>)

\* The toolkit's trigger toggling the host before it runs the onClick it was given
triggerClickToggleFirst(onClick, dialogId, open) ==
    (IF onClick = "preventDefault" THEN <<>>
     ELSE <<Call("onOpenToggle", NoId)>> \o handleOpenChangeCalls(~open))
    \o handleClick(onClick, dialogId)

\* A click on the trigger: the toolkit's trigger runs the onClick it was given
\* (handleClick) and then, unless that prevented the event's default, toggles
\* the host, which reaches handleOpenChange.
triggerClick(onClick, dialogId, open) ==
    handleClick(onClick, dialogId)
    \o (IF onClick = "preventDefault" THEN <<>>
        ELSE <<Call("onOpenToggle", NoId)>> \o handleOpenChangeCalls(~open))

\* The caller's onClick: none, one that lets the event be, one that calls
\* event.preventDefault()
OnClick == {"undefined", "handler", "preventDefault"}

\* A click on DialogTrigger
DialogTrigger(dialogId, onClick) ==
    LET calls   == triggerClick(onClick, dialogId, hostOpen)
        order   == IF dialogId # NoId THEN orderAfterOpen(openOrder, dialogs, dialogId) ELSE openOrder
        toggled == onClick # "preventDefault"
        next    == IF toggled THEN ~hostOpen ELSE hostOpen
    IN  /\ dialogs' = applyCalls(dialogs, calls)
        /\ openOrder' = IF toggled /\ ~next THEN <<>> ELSE order
        /\ hostOpen' \in (IF toggled THEN HostAfter(next) ELSE {hostOpen})
        /\ lastOp' = [Op("Trigger", dialogId) EXCEPT !.prevented = ~toggled]
        /\ UNCHANGED <<initialDialogs, controlled, pending, other>>

\* DialogClose (or Escape) on the open host: the toolkit calls onOpenChange(false)
DialogClose ==
    /\ hostOpen
    /\ dialogs' = handleOpenChange(dialogs, FALSE)
    /\ openOrder' = <<>>
    /\ hostOpen' \in HostAfter(FALSE)
    /\ lastOp' = Op("Close", NoId)
    /\ UNCHANGED <<initialDialogs, controlled, pending, other>>

\* What the onPointerDownOutside that DialogContent receives does to the
\* registry: DialogStack's clearDialogs(), unless the caller's props, spread
\* after it, carry their own handler.
pointerDownOutside(ds, overridden) == IF overridden THEN ds ELSE clearDialogs(ds)

\* A pointer interaction outside the stack of the open host. DialogStack sets
\* onPointerDownOutside to clearDialogs() and then spreads the caller's props
\* over it; the toolkit dismisses the host unless the event's default was
\* prevented (by the caller's handler, or by the toolkit for a right click).
PointerDownOutside(overridden, prevented) ==
    LET handled == pointerDownOutside(dialogs, overridden)
    IN  /\ hostOpen
        /\ dialogs' = IF prevented THEN handled ELSE handleOpenChange(handled, FALSE)
        /\ openOrder' = IF overridden /\ prevented THEN openOrder ELSE <<>>
        /\ hostOpen' \in (IF prevented THEN {hostOpen} ELSE HostAfter(FALSE))
        /\ lastOp' = [Op("PointerDownOutside", NoId) EXCEPT !.overridden = overridden, !.prevented = prevented]
        /\ UNCHANGED <<initialDialogs, controlled, pending, other>>

\* The parent of a controlled host passes a new `open` to Root: the toolkit
\* follows the prop and does not call onOpenChange, so handleOpenChange does
\* not run.
ParentSetOpen(open) ==
    /\ controlled
    /\ open # hostOpen
    /\ hostOpen' = open
    /\ lastOp' = Op("ParentSetOpen", NoId)
    /\ UNCHANGED <<dialogs, initialDialogs, controlled, openOrder, pending, other>>

Next ==
    \/ \E dialogId \in OpIds : DialogStackAdd(dialogId)
    \/ \E dialogId \in OpIds : DialogStackRemove(dialogId)
    \/ \E dialogId \in OpIds \cup {NoId}, onClick \in OnClick : DialogTrigger(dialogId, onClick)
    \/ DialogClose
    \/ \E overridden, prevented \in BOOLEAN : PointerDownOutside(overridden, prevented)
    \/ \E open \in BOOLEAN : ParentSetOpen(open)

Spec == Init /\ [][Next]_vars

(***************************************************************************)
(* DialogAlert and DialogConfirm inside the host                           *)
(***************************************************************************)
\* The action buttons with the cancel button rendered unconditionally
alertButtonsBoth(onCancel) == <<"cancel", "confirm">>

\* The action buttons DialogAlert and DialogConfirm render, in order: the
\* cancel button only with an onCancel, the confirm button always.
alertButtons(onCancel) == (IF onCancel THEN <<"cancel">> ELSE <<>>) \o <<"confirm">>

\* A click on one of the buttons, a DialogClose with the caller's callback as
\* its onClick: the toolkit runs the callback (if any) and then asks the host
\* to close, which reaches handleOpenChange.
alertButtonClick(button, onConfirm, onCancel) ==
    (IF (button = "confirm" /\ onConfirm) \/ (button = "cancel" /\ onCancel)
     THEN <<Call(IF button = "confirm" THEN "onConfirm" ELSE "onCancel", NoId)>>
     ELSE <<>>)
    \o handleOpenChangeCalls(FALSE)

\* A click on an action button of the DialogAlert or DialogConfirm that the
\* open host shows, given with or without onConfirm and onCancel
DialogAlertButton(button, onConfirm, onCancel) ==
    /\ hostOpen
    /\ \E k \in 1..Len(alertButtons(onCancel)) : alertButtons(onCancel)[k] = button
    /\ dialogs' = applyCalls(dialogs, alertButtonClick(button, onConfirm, onCancel))
    /\ openOrder' = <<>>
    /\ hostOpen' \in HostAfter(FALSE)
    /\ lastOp' = Op(IF button = "confirm" THEN "AlertConfirm" ELSE "AlertCancel", NoId)
    /\ UNCHANGED <<initialDialogs, controlled, pending, other>>

NextAlert ==
    \/ \E button \in {"cancel", "confirm"}, onConfirm, onCancel \in BOOLEAN :
          DialogAlertButton(button, onConfirm, onCancel)
    \/ \E dialogId \in OpIds : DialogStackAdd(dialogId)

SpecAlert == Init /\ [][NextAlert]_vars

(***************************************************************************)
(* The handlers call by call: what a handler calls (setDialogs with an     *)
(* updater inside openDialog, closeDialog and clearDialogs; the toolkit's  *)
(* request to open or close the host) is queued by React while the handler *)
(* runs and takes effect in the render that React performs once the        *)
(* handler has returned, before it dispatches another event.               *)
(***************************************************************************)
\* The queued calls taking effect while the handler is still running
issueAtOnce(ds, calls) == applyCalls(ds, calls)

\* The registry as the handler leaves it when it returns: setDialogs(updater)
\* only queues the updater
issue(ds, calls) == ds

\* A handler runs and returns, having made `calls`.
Issue(op, calls) ==
    /\ pending = <<>>
    /\ pending' = calls
    /\ dialogs' = issue(dialogs, calls)
    /\ lastOp' = op
    /\ UNCHANGED <<initialDialogs, hostOpen, controlled, openOrder, other>>

StackAddClick(dialogId) == Issue(Op("StackAdd", dialogId), <<Call("openDialog", dialogId)>>)

StackRemoveClick(dialogId) == Issue(Op("StackRemove", dialogId), <<Call("closeDialog", dialogId)>>)

TriggerClick(dialogId, onClick) ==
    Issue([Op("Trigger", dialogId) EXCEPT !.prevented = (onClick = "preventDefault")],
          triggerClick(onClick, dialogId, hostOpen))

CloseClick == hostOpen /\ Issue(Op("Close", NoId), handleOpenChangeCalls(FALSE))

\* The calls of a pointer interaction outside the stack: the handler that
\* DialogContent received (DialogStack's clearDialogs(), or the caller's own),
\* then, unless the default was prevented, the toolkit's request to close.
pointerDownOutsideCalls(overridden, prevented) ==
    (IF overridden THEN <<Call("onPointerDownOutside", NoId)>> ELSE <<Call("clearDialogs", NoId)>>)
    \o (IF prevented THEN <<>> ELSE handleOpenChangeCalls(FALSE))

PointerDownOutsideClick(overridden, prevented) ==
    /\ hostOpen
    /\ Issue([Op("PointerDownOutside", NoId) EXCEPT !.overridden = overridden, !.prevented = prevented],
             pointerDownOutsideCalls(overridden, prevented))

\* The open state the queued calls ask of the host, if they ask any
Requested(calls) ==
    {open \in BOOLEAN :
       \E k \in 1..Len(calls) :
          calls[k].call = (IF open THEN "onOpenChange(true)" ELSE "onOpenChange(false)")}

\* React's render after the handler: the queued updaters run in the order of
\* their calls, and the host takes the state it was asked to take.
Commit ==
    /\ pending # <<>>
    /\ dialogs' = applyCalls(dialogs, pending)
    /\ hostOpen' \in (IF Requested(pending) = {} THEN {hostOpen}
                       ELSE UNION {HostAfter(open) : open \in Requested(pending)})
    /\ pending' = <<>>
    /\ UNCHANGED <<initialDialogs, controlled, openOrder, lastOp, other>>

NextQueue ==
    \/ \E dialogId \in OpIds : StackAddClick(dialogId)
    \/ \E dialogId \in OpIds : StackRemoveClick(dialogId)
    \/ \E dialogId \in OpIds \cup {NoId}, onClick \in OnClick : TriggerClick(dialogId, onClick)
    \/ CloseClick
    \/ \E overridden, prevented \in BOOLEAN : PointerDownOutsideClick(overridden, prevented)
    \/ Commit

SpecQueue == Init /\ [][NextQueue]_vars

(***************************************************************************)
(* Components inside and outside of Roots: Root 1 holds `dialogs`, Root 2  *)
(* holds `other`; a component's site is the sequence of the Roots around   *)
(* it, the outermost first: <<>> outside every Root, <<1>> and <<2>> inside *)
(* one of two Roots side by side, <<1, 2>> inside Root 2 nested in Root 1  *)
(* (among the children of Root 1 that stay mounted when its host closes).  *)
(***************************************************************************)
Sites == {<<>>, <<1>>, <<2>>, <<1, 2>>}

ContextError == "useDialogContext must be used within a DialogProvider"

\* The components that call useDialogContext() when they render
StackAware ==
    {"DialogTrigger", "DialogStackAdd", "DialogStackRemove", "DialogStack",
     "DialogStackContent", "DialogStackTitle", "DialogStackDescription"}

\* and two that do not
Components == StackAware \cup {"DialogClose", "DialogContent"}

\* useDialogContext falling back to a registry instead of throwing
useDialogContextDefault(enclosing) ==
    [error |-> NoError, root |-> IF enclosing = <<>> THEN 1 ELSE enclosing[Len(enclosing)]]

\* useDialogContext reading the outermost provider
useDialogContextOutermost(enclosing) ==
    IF enclosing = <<>> THEN [error |-> ContextError, root |-> 0]
    ELSE [error |-> NoError, root |-> enclosing[1]]

\* useDialogContext: React.useContext gives the value of the nearest
\* DialogProvider around the component, undefined when there is none, and
\* then the hook throws.
useDialogContext(enclosing) ==
    IF enclosing = <<>> THEN [error |-> ContextError, root |-> 0]
    ELSE [error |-> NoError, root |-> enclosing[Len(enclosing)]]

\* The registry and host of a Root
RootAt(r) == IF r = 1 THEN [dialogs |-> dialogs, hostOpen |-> hostOpen] ELSE other

\* A Root's state after a handler set it; the state of the other Root stays.
SetRoot(r, ds, open) ==
    IF r = 1 THEN dialogs' = ds /\ hostOpen' = open /\ other' = other
    ELSE other' = [dialogs |-> ds, hostOpen |-> open] /\ dialogs' = dialogs /\ hostOpen' = hostOpen

\* A component renders at a site.
RenderAt(component, enclosing) ==
    /\ lastOp' = [Op("render", NoId) EXCEPT
                    !.component = component,
                    !.site = enclosing,
                    !.error = IF component \in StackAware THEN useDialogContext(enclosing).error
                              ELSE NoError]
    /\ UNCHANGED <<dialogs, initialDialogs, hostOpen, controlled, openOrder, pending, other>>

\* A click on a DialogStackAdd that rendered at the site
StackAddAt(enclosing, dialogId) ==
    LET context == useDialogContext(enclosing) IN
    /\ context.error = NoError
    /\ SetRoot(context.root, openDialog(RootAt(context.root).dialogs, dialogId),
               RootAt(context.root).hostOpen)
    /\ lastOp' = [Op("StackAdd", dialogId) EXCEPT !.component = "DialogStackAdd", !.site = enclosing]
    /\ UNCHANGED <<initialDialogs, controlled, openOrder, pending>>

\* A click on a DialogStackRemove that rendered at the site
StackRemoveAt(enclosing, dialogId) ==
    LET context == useDialogContext(enclosing) IN
    /\ context.error = NoError
    /\ SetRoot(context.root, closeDialog(RootAt(context.root).dialogs, dialogId),
               RootAt(context.root).hostOpen)
    /\ lastOp' = [Op("StackRemove", dialogId) EXCEPT !.component = "DialogStackRemove", !.site = enclosing]
    /\ UNCHANGED <<initialDialogs, controlled, openOrder, pending>>

\* A click on a DialogClose at the site: the nearest Root's host closes, and
\* that Root's DialogRootContent runs handleOpenChange(false).
CloseAt(enclosing) ==
    LET context == useDialogContext(enclosing) IN
    /\ context.error = NoError
    /\ RootAt(context.root).hostOpen
    /\ SetRoot(context.root, handleOpenChange(RootAt(context.root).dialogs, FALSE), FALSE)
    /\ lastOp' = [Op("Close", NoId) EXCEPT !.component = "DialogClose", !.site = enclosing]
    /\ UNCHANGED <<initialDialogs, controlled, openOrder, pending>>

\* The first render of two Roots given lists with the same ids, each with
\* its own open fields and contents, both hosts open and uncontrolled.
InitRoots ==
    \E n \in 0..MaxDialogs :
        \E opens1, opens2 \in [1..n -> {"undefined", "true"}] :
            LET list1 == [i \in 1..n |-> [id |-> IdNames[i], open |-> opens1[i], dialog |-> i]]
                list2 == [i \in 1..n |-> [id |-> IdNames[i], open |-> opens2[i], dialog |-> MaxDialogs + i]]
            IN  /\ dialogs = initDialogs([present |-> TRUE, list |-> list1])
                /\ other = [dialogs |-> initDialogs([present |-> TRUE, list |-> list2]), hostOpen |-> TRUE]
                /\ initialDialogs = Fixed(list1)
                /\ hostOpen = TRUE
                /\ controlled = FALSE
                /\ openOrder = <<>>
                /\ lastOp = [Op("init", NoId) EXCEPT !.props = [present |-> TRUE, list |-> list1]]
                /\ pending = <<>>

NextRoots ==
    \/ \E component \in Components, enclosing \in Sites : RenderAt(component, enclosing)
    \/ \E enclosing \in Sites, dialogId \in OpIds : StackAddAt(enclosing, dialogId)
    \/ \E enclosing \in Sites, dialogId \in OpIds : StackRemoveAt(enclosing, dialogId)
    \/ \E enclosing \in Sites : CloseAt(enclosing)

SpecRoots == InitRoots /\ [][NextRoots]_vars

(***************************************************************************)
(* A Root rendered again by its parent with another `dialogs` prop         *)
(***************************************************************************)
Reversed(s) == [i \in 1..Len(s) |-> s[Len(s) + 1 - i]]

\* Lists a parent may pass on a later render of a Root first rendered with
\* `list` (ids and contents): the list rebuilt as it was, a descriptor added,
\* one removed, the order reversed, the open fields set, the contents changed.
Rerendered(list) ==
    LET asGiven == Map(list, LAMBDA d : [id |-> d.id, open |-> "undefined", dialog |-> d.dialog])
        added   == CHOOSE id \in OpIds : id \notin IdsIn(list)
    IN  {asGiven,
         Append(asGiven, [id |-> added, open |-> "true", dialog |-> Len(list) + 1]),
         SubSeq(asGiven, 1, Len(list) - 1),
         Reversed(asGiven),
         Map(asGiven, LAMBDA d : [d EXCEPT !.open = "true"]),
         Map(asGiven, LAMBDA d : [d EXCEPT !.dialog = d.dialog + MaxDialogs + 1])}

\* A render of the mounted Root: DialogProvider runs again with the new props.
Render(props) ==
    /\ dialogs' = useState(FALSE, initDialogs(props), dialogs)
    /\ lastOp' = [Op("render", NoId) EXCEPT !.props = props]
    /\ UNCHANGED <<initialDialogs, hostOpen, controlled, openOrder, pending, other>>

InitRerender == Init /\ hostOpen /\ ~controlled

NextRerender ==
    \/ \E list \in Rerendered(initialDialogs) : Render([present |-> TRUE, list |-> list])
    \/ Render(NoProps)
    \/ \E dialogId \in OpIds : DialogStackAdd(dialogId)
    \/ \E dialogId \in OpIds : DialogStackRemove(dialogId)

SpecRerender == InitRerender /\ [][NextRerender]_vars

(***************************************************************************)
(* A Root whose open host shows the stack, with StackAdd and StackRemove   *)
(* clicked in any order                                                    *)
(***************************************************************************)
InitOpenHost == Init /\ hostOpen /\ ~controlled

NextOpenClose ==
    \/ \E dialogId \in OpIds : DialogStackAdd(dialogId)
    \/ \E dialogId \in OpIds : DialogStackRemove(dialogId)

SpecOpenClose == InitOpenHost /\ [][NextOpenClose]_vars

(***************************************************************************)
(* An uncontrolled Root that starts with its host closed and every         *)
(* descriptor closed; StackAdd and StackRemove, which are rendered in the  *)
(* host's content, are clicked only while the host is open                 *)
(***************************************************************************)
InitClosedHost ==
    /\ Init
    /\ ~hostOpen /\ ~controlled
    /\ \A i \in 1..Len(dialogs) : ~dialogs[i].open

NextClosedHost ==
    \/ \E dialogId \in OpIds : hostOpen /\ DialogStackAdd(dialogId)
    \/ \E dialogId \in OpIds : hostOpen /\ DialogStackRemove(dialogId)
    \/ \E dialogId \in OpIds \cup {NoId}, onClick \in OnClick : DialogTrigger(dialogId, onClick)
    \/ DialogClose
    \/ \E overridden, prevented \in BOOLEAN : PointerDownOutside(overridden, prevented)

SpecClosedHost == InitClosedHost /\ [][NextClosedHost]_vars

(***************************************************************************)
(* A Root with up to MaxStacked descriptors, its host open, with StackAdd  *)
(* and StackRemove clicked in any order                                    *)
(***************************************************************************)
StackedIds == {IdNames[i] : i \in 1..MaxStacked}

InitStacked ==
    \E n \in 0..MaxStacked :
        \E opens \in [1..n -> {"undefined", "true"}] :
            LET list == [i \in 1..n |-> [id |-> IdNames[i], open |-> opens[i], dialog |-> i]]
            IN  /\ dialogs = initDialogs([present |-> TRUE, list |-> list])
                /\ initialDialogs = Fixed(list)
                /\ hostOpen = TRUE
                /\ controlled = FALSE
                /\ openOrder = <<>>
                /\ lastOp = [Op("init", NoId) EXCEPT !.props = [present |-> TRUE, list |-> list]]
                /\ pending = <<>>
                /\ other = NoRoot

NextStacked ==
    \/ \E dialogId \in StackedIds : DialogStackAdd(dialogId)
    \/ \E dialogId \in StackedIds : DialogStackRemove(dialogId)

SpecStacked == InitStacked /\ [][NextStacked]_vars

(***************************************************************************)
(* A Root given a list in which an id occurs more than once                *)
(***************************************************************************)
\* Lists in which some id occurs more than once: nothing rejects them
\* (DialogProps[] is not validated).
DuplicateLists ==
    UNION {{[i \in 1..n |-> [id |-> ids[i], open |-> opens[i], dialog |-> i]] :
               ids \in {s \in [1..n -> Ids] : \E i, j \in 1..n : i # j /\ s[i] = s[j]},
               opens \in [1..n -> {"undefined", "true"}]} :
           n \in 2..MaxDialogs}

\* Root's first render with such a list, the host open.
InitDuplicates ==
    \E list \in DuplicateLists :
        /\ dialogs = initDialogs([present |-> TRUE, list |-> list])
        /\ initialDialogs = Fixed(list)
        /\ hostOpen = TRUE
        /\ controlled = FALSE
        /\ openOrder = <<>>
        /\ lastOp = [Op("init", NoId) EXCEPT !.props = [present |-> TRUE, list |-> list]]
        /\ pending = <<>>
        /\ other = NoRoot

NextDuplicates ==
    \/ \E dialogId \in OpIds : DialogStackAdd(dialogId)
    \/ \E dialogId \in OpIds : DialogStackRemove(dialogId)

SpecDuplicates == InitDuplicates /\ [][NextDuplicates]_vars

(***************************************************************************)
(* Vocabulary of the properties.                                           *)
(***************************************************************************)
Indices == 1..Len(dialogs)

IdsOf(ds) == {ds[i].id : i \in 1..Len(ds)}

OpenIndices(ds) == {i \in 1..Len(ds) : ds[i].open}

\* The registry `ds` with the flags `flag(i)`, everything else as it is.
WithFlags(ds, flag(_)) ==
    [i \in 1..Len(ds) |-> [id |-> ds[i].id, open |-> flag(i), dialog |-> ds[i].dialog]]

\* The handler that just ran called open(id) and nothing else on the registry:
\* StackAdd, or a Trigger with a dialogId that opens the host.
Opened(id) ==
    \/ lastOp' = Op("StackAdd", id)
    \/ lastOp' = Op("Trigger", id) /\ ~hostOpen

Closed(id) == lastOp' = Op("StackRemove", id)

\* The handler that just ran called clearAll() and nothing else on the
\* registry: a close of the host, or an outside pointer that reached
\* DialogStack's own handler.
Cleared ==
    \/ lastOp'.kind = "Close"
    \/ lastOp'.kind = "PointerDownOutside" /\ ~lastOp'.overridden

(***************************************************************************)
(* C1. open(id) sets the open flag of the descriptor with that id to true  *)
(* and leaves every other descriptor's flag (and every id and content) as  *)
(* it was; a second open(id) right after the first changes nothing.        *)
(***************************************************************************)
C1_OpenStep ==
    \A id \in OpIds :
        /\ Opened(id) =>
              dialogs' = WithFlags(dialogs, LAMBDA i : IF dialogs[i].id = id THEN TRUE ELSE dialogs[i].open)
        /\ lastOp = Op("StackAdd", id) /\ lastOp' = Op("StackAdd", id) => dialogs' = dialogs

C1_Open == [][C1_OpenStep]_vars

\* open(id) has just run on a registry that has the id: that descriptor is
\* open, and another descriptor stayed closed.
C1_Witness ==
    /\ lastOp.kind = "StackAdd"
    /\ \E i, j \in Indices :
          /\ i # j
          /\ dialogs[i].id = lastOp.id /\ dialogs[i].open
          /\ ~dialogs[j].open

(***************************************************************************)
(* C2. close(id) sets the open flag of the descriptor with that id to      *)
(* false and leaves every other descriptor's flag as it was; a second      *)
(* close(id) right after the first changes nothing.                        *)
(***************************************************************************)
C2_CloseStep ==
    \A id \in OpIds :
        /\ Closed(id) =>
              dialogs' = WithFlags(dialogs, LAMBDA i : IF dialogs[i].id = id THEN FALSE ELSE dialogs[i].open)
        /\ lastOp = Op("StackRemove", id) /\ Closed(id) => dialogs' = dialogs

C2_Close == [][C2_CloseStep]_vars

\* close(id) has just run on a registry that has the id: that descriptor is
\* closed, and another descriptor stayed open.
C2_Witness ==
    /\ lastOp.kind = "StackRemove"
    /\ \E i, j \in Indices :
          /\ i # j
          /\ dialogs[i].id = lastOp.id /\ ~dialogs[i].open
          /\ dialogs[j].open

(***************************************************************************)
(* C3. clearAll() closes every descriptor, whatever the registry was, and  *)
(* a second clearAll() yields the same registry as the first: both when    *)
(* one handler calls it twice (the outside pointer: DialogStack's handler, *)
(* then the host's close) and when it runs in two handlers in a row.       *)
(***************************************************************************)
C3_ClearStep ==
    /\ Cleared => dialogs' = WithFlags(dialogs, LAMBDA i : FALSE)
    /\ lastOp.kind = "Close" /\ lastOp'.kind = "Close" => dialogs' = dialogs

C3_ClearAll == [][C3_ClearStep]_vars

\* An outside pointer has just run clearAll() twice on a registry of three
\* descriptors, and all are closed.
C3_Witness ==
    /\ lastOp.kind = "PointerDownOutside" /\ ~lastOp.overridden /\ ~lastOp.prevented
    /\ Len(dialogs) = 3
    /\ OpenIndices(dialogs) = {}

(***************************************************************************)
(* C4. Whenever the host goes from open to closed, by any path, the        *)
(* registry is cleared in the same step, so that the next opening of the   *)
(* host starts from an empty open subset.                                  *)
(***************************************************************************)
C4_HostCloseStep == hostOpen /\ ~hostOpen' => OpenIndices(dialogs') = {}

C4_HostCloseClears == [][C4_HostCloseStep]_vars

(***************************************************************************)
(* The stack as the properties read it.                                    *)
(***************************************************************************)
\* The rendered item of the descriptor at registry index i (ids are unique).
ItemOf(i) ==
    LET st == Stack(dialogs)
    IN  st[CHOOSE k \in 1..Len(st) : st[k].id = dialogs[i].id]

PositionOf(i) == ItemOf(i).position

ZIndexOf(i) == ItemOf(i).animate.zIndex

Max(S) == CHOOSE x \in S : \A y \in S : y <= x

(***************************************************************************)
(* C5. With N open descriptors the stack gives the one at filtered index i *)
(* (registry order, from 0) position N - i - 1 and z-index N - position:   *)
(* the positions are exactly 0..N-1, each once, and the open descriptor    *)
(* with the highest registry index has position 0 and z-index N; for three *)
(* open descriptors [A, B, C] the positions are 2, 1, 0 and the z-indices  *)
(* 1, 2, 3.                                                                *)
(***************************************************************************)
C5_Positions ==
    LET st == Stack(dialogs)
        N  == Cardinality(OpenIndices(dialogs))
    IN  /\ Len(st) = N
        /\ \A k \in 1..N :
              /\ st[k].position = N - (k - 1) - 1
              /\ st[k].animate.zIndex = N - st[k].position
        /\ {st[k].position : k \in 1..N} = 0..(N - 1)
        /\ \A k, l \in 1..N : k # l => st[k].position # st[l].position
        /\ N > 0 =>
              /\ PositionOf(Max(OpenIndices(dialogs))) = 0
              /\ ZIndexOf(Max(OpenIndices(dialogs))) = N
        /\ N = 3 =>
              /\ <<st[1].position, st[2].position, st[3].position>> = <<2, 1, 0>>
              /\ <<st[1].animate.zIndex, st[2].animate.zIndex, st[3].animate.zIndex>> = <<1, 2, 3>>

\* Three descriptors are open and rendered.
C5_Witness ==
    /\ OpenIndices(dialogs) = {1, 2, 3}
    /\ [k \in 1..3 |-> Stack(dialogs)[k].id] = [k \in 1..3 |-> dialogs[k].id]
    /\ PositionOf(3) = 0 /\ PositionOf(2) = 1 /\ PositionOf(1) = 2

(***************************************************************************)
(* C6, as claimed. In the stack of the open host, of any two open          *)
(* descriptors the one whose open(id) ran later is nearer the front:       *)
(* smaller position, larger z-index.                                       *)
(***************************************************************************)
C6_LaterOpenedOnTop ==
    hostOpen =>
        \A a, b \in 1..Len(openOrder) :
            a < b =>
                /\ PositionOf(openOrder[b]) < PositionOf(openOrder[a])
                /\ ZIndexOf(openOrder[b]) > ZIndexOf(openOrder[a])

(***************************************************************************)
(* C6, amended. Of any two open descriptors, the one later in the registry *)
(* is nearer the front (smaller position, larger z-index), in whatever     *)
(* order the two were opened; so later-opened descriptors are on top       *)
(* exactly when the descriptors were opened in registry order.             *)
(***************************************************************************)
C6_LaterInRegistryOnTop ==
    /\ \A i, j \in OpenIndices(dialogs) :
          i < j => PositionOf(j) < PositionOf(i) /\ ZIndexOf(j) > ZIndexOf(i)
    /\ \A a, b \in 1..Len(openOrder) :
          a < b => (PositionOf(openOrder[b]) < PositionOf(openOrder[a]) <=> openOrder[a] < openOrder[b])

\* The second descriptor was opened first and the first one after it: the
\* later-opened one is behind.
C6_Witness ==
    /\ hostOpen
    /\ openOrder = <<2, 1>>
    /\ PositionOf(1) = 1 /\ PositionOf(2) = 0

(***************************************************************************)
(* C7. After any sequence of operations the open subset is exactly the     *)
(* descriptors whose flag is true, in registry order. For the registry     *)
(* [first, second], all closed: open(first) gives [first] with first at    *)
(* position 0; then open(second) gives [first, second] with second at      *)
(* position 0 and first at position 1; then close(second) gives [first]    *)
(* with first at position 0.                                               *)
(***************************************************************************)
\* The ids and positions of the rendered stack, in the order of the open subset.
StackView(ds) == [k \in 1..Len(Stack(ds)) |-> <<Stack(ds)[k].id, Stack(ds)[k].position>>]

C7_OpenSubsetInOrder ==
    LET open == openDialogs(dialogs)
    IN  /\ Len(open) = Cardinality(OpenIndices(dialogs))
        /\ \A k \in 1..Len(open) : open[k].open
        /\ {open[k].id : k \in 1..Len(open)} = {dialogs[i].id : i \in OpenIndices(dialogs)}
        /\ \A k, l \in 1..Len(open) :
              k < l => \E i, j \in OpenIndices(dialogs) : i < j /\ dialogs[i] = open[k] /\ dialogs[j] = open[l]

C7_ScenarioStep ==
    LET ids(ds)   == [i \in 1..Len(ds) |-> ds[i].id]
        flags(ds) == [i \in 1..Len(ds) |-> ds[i].open]
    IN  ids(dialogs) = <<"first", "second">> =>
            /\ flags(dialogs) = <<FALSE, FALSE>> /\ Opened("first") =>
                  StackView(dialogs') = << <<"first", 0>> >>
            /\ flags(dialogs) = <<TRUE, FALSE>> /\ Opened("second") =>
                  StackView(dialogs') = << <<"first", 1>>, <<"second", 0>> >>
            /\ flags(dialogs) = <<TRUE, TRUE>> /\ Closed("second") =>
                  StackView(dialogs') = << <<"first", 0>> >>

C7_OpenSubset == []C7_OpenSubsetInOrder /\ [][C7_ScenarioStep]_vars

\* The end of the scenario: close(second) has run on [first, second] with
\* first opened before second, and first alone is rendered, at the front.
C7_Witness ==
    /\ [i \in Indices |-> dialogs[i].id] = <<"first", "second">>
    /\ lastOp = Op("StackRemove", "second")
    /\ openOrder = <<1>>
    /\ StackView(dialogs) = << <<"first", 0>> >>

(***************************************************************************)
(* C8. A registry built from a list of N descriptors with unique ids holds *)
(* those N descriptors in the given order, each with open = false when its *)
(* open field was omitted and with the given value otherwise; built        *)
(* without a list it is empty. So the initial open subset is empty unless  *)
(* some descriptor was given open = true.                                  *)
(***************************************************************************)
C8_Initialize ==
    lastOp.kind = "init" =>
        LET props == lastOp.props
            list  == props.list
        IN  /\ ~props.present => dialogs = <<>>
            /\ props.present =>
                  /\ Len(dialogs) = Len(list)
                  /\ \A i \in 1..Len(list) :
                        /\ dialogs[i].id = list[i].id
                        /\ dialogs[i].dialog = list[i].dialog
                        /\ list[i].open = "undefined" => dialogs[i].open = FALSE
                        /\ list[i].open = "true" => dialogs[i].open = TRUE
                        /\ list[i].open = "false" => dialogs[i].open = FALSE
            /\ openDialogs(dialogs) = <<>> <=> ~\E i \in 1..Len(list) : list[i].open = "true"

\* A registry just built from three descriptors: one without an open field,
\* one with open = true, one with open = false.
C8_Witness ==
    /\ lastOp.kind = "init"
    /\ Len(dialogs) = 3
    /\ {lastOp.props.list[i].open : i \in 1..3} = OpenProp
    /\ Cardinality(OpenIndices(dialogs)) = 1

(***************************************************************************)
(* C9. open(id) and close(id) with an id that no descriptor has leave the  *)
(* registry (and the host) as they are; open, close and clearAll can run   *)
(* in every state, the empty registry included, and what they leave is     *)
(* again a registry: they have no error outcome.                           *)
(***************************************************************************)
IsRegistry(ds) ==
    /\ DOMAIN ds = 1..Len(ds)
    /\ \A i \in 1..Len(ds) :
          /\ DOMAIN ds[i] = {"id", "open", "dialog"}
          /\ ds[i].open \in BOOLEAN

C9_AbsentIdStep ==
    /\ \A id \in OpIds :
          id \notin IdsOf(dialogs) /\ (Opened(id) \/ Closed(id)) =>
              dialogs' = dialogs /\ controlled' = controlled /\ initialDialogs' = initialDialogs
    /\ \A id \in OpIds :
          id \notin IdsOf(dialogs) /\ (lastOp' = Op("StackAdd", id) \/ Closed(id)) => hostOpen' = hostOpen
    /\ IsRegistry(dialogs')

C9_Total ==
    /\ \A id \in OpIds : ENABLED DialogStackAdd(id) /\ ENABLED DialogStackRemove(id)
    /\ \A id \in OpIds \cup {NoId}, onClick \in OnClick : ENABLED DialogTrigger(id, onClick)
    /\ hostOpen => ENABLED DialogClose
    /\ IsRegistry(dialogs)

C9_AbsentIdNoOp == []C9_Total /\ [][C9_AbsentIdStep]_vars

\* open or close has just run with an id the registry does not have, on a
\* registry with an open and a closed descriptor.
C9_Witness ==
    /\ lastOp.kind \in {"StackAdd", "StackRemove"}
    /\ lastOp.id \notin IdsOf(dialogs)
    /\ \E i, j \in Indices : dialogs[i].open /\ ~dialogs[j].open

(***************************************************************************)
(* C10. In every reachable state the ids and the contents of the registry  *)
(* are, place by place, those it was initialized with: no operation adds,  *)
(* removes, reorders or replaces a descriptor, only open flags change, and *)
(* no two descriptors share an id.                                         *)
(***************************************************************************)
C10_DescriptorsFixed ==
    /\ Len(dialogs) = Len(initialDialogs)
    /\ \A i \in Indices :
          /\ dialogs[i].id = initialDialogs[i].id
          /\ dialogs[i].dialog = initialDialogs[i].dialog
          /\ DOMAIN dialogs[i] = {"id", "open", "dialog"}
    /\ \A i, j \in Indices : dialogs[i].id = dialogs[j].id => i = j

\* A descriptor of a registry of three has just been closed; another is open.
C10_Witness ==
    /\ Len(dialogs) = 3
    /\ lastOp.kind = "StackRemove"
    /\ \E i, j \in Indices : dialogs[i].id = lastOp.id /\ ~dialogs[i].open /\ dialogs[j].open

(***************************************************************************)
(* C11. For a descriptor that is closed, open(id) followed at once by      *)
(* close(id) gives back exactly the registry before the open(id), whatever *)
(* the flags of the other descriptors are.                                 *)
(***************************************************************************)
C11_RoundTrip ==
    \A id \in OpIds :
        (\A i \in Indices : dialogs[i].id = id => ~dialogs[i].open) =>
            /\ closeDialog(openDialog(dialogs, id), id) = dialogs
            /\ id \in IdsOf(dialogs) => openDialog(dialogs, id) # dialogs

\* close(id) has just run on a descriptor of the registry, which is closed
\* again, while another descriptor is open.
C11_Witness ==
    /\ lastOp.kind = "StackRemove"
    /\ \E i, j \in Indices :
          /\ dialogs[i].id = lastOp.id /\ ~dialogs[i].open
          /\ dialogs[j].open
          /\ closeDialog(openDialog(dialogs, lastOp.id), lastOp.id) = dialogs

(***************************************************************************)
(* C12. A pointer interaction outside the rendered stack invokes           *)
(* clearAll() for every configuration of Stack, the caller's own           *)
(* onPointerDownOutside included: after it every descriptor is closed.     *)
(***************************************************************************)
C12_OutsidePointerStep == lastOp'.kind = "PointerDownOutside" => OpenIndices(dialogs') = {}

C12_OutsidePointerClears == [][C12_OutsidePointerStep]_vars

(***************************************************************************)
(* C16. With the default tunables (24 per step, 0.05 scale step, 0.33      *)
(* opacity step) the resting transform is linear in the position: the item *)
(* at position p rests at offset -24*p, scale 1 - 0.05*p and opacity       *)
(* 1 - 0.33*p (scale and opacity in hundredths here); scale and opacity    *)
(* strictly decrease as the position grows, and the front item rests at    *)
(* offset 0, scale 1 and opacity 1.                                        *)
(***************************************************************************)
C16_DefaultTransform ==
    LET view == Stack(dialogs) IN
    /\ offsetY = 24 /\ offsetScale = 5 /\ offsetOpacity = 33
    /\ \A k \in 1..Len(view) :
          /\ view[k].animate.y = -24 * view[k].position
          /\ view[k].animate.scale = 100 - 5 * view[k].position
          /\ view[k].animate.opacity = 100 - 33 * view[k].position
          /\ view[k].position = 0 =>
                /\ view[k].animate.y = 0
                /\ view[k].animate.scale = 100
                /\ view[k].animate.opacity = 100
    /\ \A k, l \in 1..Len(view) :
          view[k].position < view[l].position =>
              /\ view[l].animate.scale < view[k].animate.scale
              /\ view[l].animate.opacity < view[k].animate.opacity

\* The stack of an open host shows three items, the deepest at position 2.
C16_Witness ==
    /\ hostOpen
    /\ Len(Stack(dialogs)) = 3
    /\ \E k \in 1..3 : Stack(dialogs)[k].position = 2
                         /\ Stack(dialogs)[k].animate.opacity = 34

(***************************************************************************)
(* C15. A list with duplicate ids is not rejected, and of several          *)
(* descriptors that share an id only the last one supplied takes effect:   *)
(* open(id) and close(id) toggle that one alone, and the stack shows that  *)
(* one alone for the id.                                                   *)
(***************************************************************************)
LastWith(ds, id) == IF Matching(ds, id) = {} THEN 0 ELSE Max(Matching(ds, id))

C15_LastOnlyStep ==
    \A id \in Ids :
        /\ Opened(id) \/ Closed(id) =>
              \A i \in Indices : i # LastWith(dialogs, id) => dialogs'[i] = dialogs[i]
        /\ \A k \in 1..Len(Stack(dialogs')) :
              Stack(dialogs')[k].id = id =>
                  Stack(dialogs')[k].dialog = dialogs'[LastWith(dialogs', id)].dialog

C15_LastWriteWins == [][C15_LastOnlyStep]_vars

\* As the code has it: the list is taken as given, open(id) and close(id)
\* set the flag of every descriptor that has the id, and the stack is handed
\* every open descriptor, those sharing an id included, each at a position
\* of its own.
C15_AllSharingStep ==
    \A id \in OpIds :
        /\ Opened(id) =>
              dialogs' = WithFlags(dialogs, LAMBDA i : dialogs[i].id = id \/ dialogs[i].open)
        /\ Closed(id) =>
              dialogs' = WithFlags(dialogs, LAMBDA i : dialogs[i].id # id /\ dialogs[i].open)

C15_AllKept ==
    /\ Fixed(dialogs) = initialDialogs
    /\ \E i, j \in Indices : i # j /\ dialogs[i].id = dialogs[j].id
    /\ Len(Stack(dialogs)) = Cardinality(OpenIndices(dialogs))
    /\ \A k, l \in 1..Len(Stack(dialogs)) :
          k # l => /\ Stack(dialogs)[k].dialog # Stack(dialogs)[l].dialog
                   /\ Stack(dialogs)[k].position # Stack(dialogs)[l].position

C15_DuplicatesToggleTogether == []C15_AllKept /\ [][C15_AllSharingStep]_vars

\* open(id) has just run on a list holding the id twice: both descriptors
\* are open and both are in the stack.
C15_Witness ==
    /\ lastOp.kind = "StackAdd"
    /\ \E i, j \in Indices :
          /\ i < j /\ dialogs[i].id = lastOp.id /\ dialogs[j].id = lastOp.id
          /\ dialogs[i].open /\ dialogs[j].open
          /\ \E k, l \in 1..Len(Stack(dialogs)) :
                /\ Stack(dialogs)[k].dialog = dialogs[i].dialog
                /\ Stack(dialogs)[l].dialog = dialogs[j].dialog
                /\ Stack(dialogs)[k].position = Stack(dialogs)[l].position + 1

(***************************************************************************)
(* C20. The registry is created once, from the list given when the Root is *)
(* first rendered: a later render of the same Root with another dialogs    *)
(* list (descriptors added, removed, reordered, open or content fields     *)
(* changed, or no list) leaves the registry as it is.                      *)
(***************************************************************************)
C20_RenderStep == lastOp'.kind = "render" => dialogs' = dialogs

C20_CreatedOnce == [](Fixed(dialogs) = initialDialogs) /\ [][C20_RenderStep]_vars

\* The Root has just been rendered with a list that differs from its
\* registry in length, ids, contents and open fields alike.
C20_Witness ==
    /\ lastOp.kind = "render" /\ lastOp.props.present
    /\ Len(dialogs) = 2 /\ Len(lastOp.props.list) = 3
    /\ dialogs[1].open /\ ~dialogs[2].open
    /\ initDialogs(lastOp.props) # dialogs
    /\ Fixed(lastOp.props.list) # initialDialogs

(***************************************************************************)
(* C14. A click on a Trigger that has a dialogId first invokes the         *)
(* caller's onClick (if any), then opens that descriptor, then toggles the *)
(* host, so that one click on a closed host leaves the host open with that *)
(* descriptor in the open subset; a click on a Trigger without dialogId    *)
(* leaves the registry unchanged.                                          *)
(***************************************************************************)
IsOpen(ds, id) == \E i \in 1..Len(ds) : ds[i].id = id /\ ds[i].open

C14_OneClickStep ==
    lastOp'.kind = "Trigger" =>
        /\ lastOp'.id \in IdsOf(dialogs) /\ ~hostOpen =>
              hostOpen' /\ IsOpen(dialogs', lastOp'.id)
        /\ lastOp'.id = NoId => dialogs' = dialogs

Places(calls, c) == {k \in 1..Len(calls) : calls[k] = c}

\* The order of the calls of a click: onClick (if given) first, openDialog
\* (if a dialogId is given) next, the toggle last; the toggle is left out
\* exactly when onClick prevented the default, and clearDialogs follows the
\* toggle exactly when the host was open.
C14_CallOrder ==
    \A dialogId \in OpIds \cup {NoId}, onClick \in OnClick :
        LET calls    == triggerClick(onClick, dialogId, hostOpen)
            onClicks == Places(calls, Call("onClick", NoId))
            opens    == Places(calls, Call("openDialog", dialogId))
            toggles  == Places(calls, Call("onOpenToggle", NoId))
            clears   == Places(calls, Call("clearDialogs", NoId))
        IN  /\ onClicks = IF onClick = "undefined" THEN {} ELSE {1}
            /\ opens = IF dialogId = NoId THEN {} ELSE {Cardinality(onClicks) + 1}
            /\ toggles = IF onClick = "preventDefault" THEN {}
                         ELSE {Cardinality(onClicks) + Cardinality(opens) + 1}
            /\ clears = IF hostOpen /\ toggles # {} THEN {Len(calls)} ELSE {}
            /\ clears # {} => \A k \in toggles : k < Len(calls)

\* What the click leaves behind: a toggle that closes the open host clears
\* the registry, with or without a dialogId; otherwise the click opens the
\* descriptor of its dialogId and nothing else, and without a dialogId it
\* leaves the registry as it is. On a closed host the click leaves the host
\* open with the descriptor in the open subset when the registry has the id,
\* onClick did not prevent the default and the host took the toggle.
C14_ClickStep ==
    lastOp'.kind = "Trigger" =>
        LET id      == lastOp'.id
            closing == hostOpen /\ ~lastOp'.prevented
        IN  /\ closing => OpenIndices(dialogs') = {}
            /\ ~closing =>
                  dialogs' = WithFlags(dialogs, LAMBDA i : dialogs[i].id = id \/ dialogs[i].open)
            /\ ~closing /\ id = NoId => dialogs' = dialogs
            /\ lastOp'.prevented => hostOpen' = hostOpen
            /\ ~lastOp'.prevented /\ ~controlled => hostOpen' = ~hostOpen
            /\ ~hostOpen /\ hostOpen' /\ id \in IdsOf(dialogs) => IsOpen(dialogs', id)

C17_Buttons ==
    \A onConfirm, onCancel \in BOOLEAN :
        /\ alertButtons(onCancel) = IF onCancel THEN <<"cancel", "confirm">> ELSE <<"confirm">>
        /\ alertButtonClick("confirm", onConfirm, onCancel) =
              (IF onConfirm THEN <<Call("onConfirm", NoId)>> ELSE <<>>) \o handleOpenChangeCalls(FALSE)
        /\ alertButtonClick("cancel", onConfirm, TRUE) =
              <<Call("onCancel", NoId)>> \o handleOpenChangeCalls(FALSE)
        /\ hostOpen => ENABLED DialogAlertButton("confirm", onConfirm, onCancel)
        /\ hostOpen => ENABLED DialogAlertButton("cancel", onConfirm, TRUE)
        /\ ~ENABLED DialogAlertButton("cancel", onConfirm, FALSE)

\* The click does to the registry and the host what a close of the host does
\* (the host's own handleOpenChange clears the registry), and nothing more.
C17_ButtonStep ==
    lastOp'.kind \in {"AlertConfirm", "AlertCancel"} =>
        /\ hostOpen
        /\ dialogs' = handleOpenChange(dialogs, FALSE)
        /\ hostOpen' \in HostAfter(FALSE)
        /\ ~controlled => ~hostOpen'
        /\ UNCHANGED <<initialDialogs, controlled, pending, other>>

C17_AlertButtons == []C17_Buttons /\ [][C17_ButtonStep]_vars

\* The cancel button has been clicked, and the host is closed.
C17_Witness ==
    /\ lastOp.kind = "AlertCancel"
    /\ ~hostOpen /\ ~controlled
    /\ Len(dialogs) = 2 /\ OpenIndices(dialogs) = {}

(***************************************************************************)
(* C19. Every registry mutation (open, close, clearAll) happens            *)
(* synchronously inside the handler that issues it, as one step that never *)
(* blocks or suspends and never spans more than one scheduling turn, so    *)
(* that the new registry state is in effect when the handler returns.      *)
(***************************************************************************)
HandlerReturns == pending = <<>> /\ pending' # <<>>

C19_InEffectStep == HandlerReturns => dialogs' = applyCalls(dialogs, pending')

C19_InEffectOnReturn == [][C19_InEffectStep]_vars

\* As the code has it: a handler is never blocked and returns in one step
\* with its mutations queued and the registry as it was; the render that
\* puts them into effect is always possible then and comes before any
\* other handler.
C19_NeverBlocked ==
    /\ pending = <<>> =>
          /\ \A id \in OpIds : ENABLED StackAddClick(id) /\ ENABLED StackRemoveClick(id)
          /\ \A id \in OpIds \cup {NoId}, onClick \in OnClick : ENABLED TriggerClick(id, onClick)
          /\ hostOpen => ENABLED CloseClick
    /\ pending # <<>> =>
          /\ ENABLED Commit
          /\ \A id \in OpIds : ~ENABLED StackAddClick(id) /\ ~ENABLED StackRemoveClick(id)
          /\ \A id \in OpIds \cup {NoId}, onClick \in OnClick : ~ENABLED TriggerClick(id, onClick)
          /\ ~ENABLED CloseClick

C19_QueueStep ==
    /\ HandlerReturns => dialogs' = dialogs /\ hostOpen' = hostOpen
    /\ pending # <<>> =>
          /\ pending' = <<>> /\ lastOp' = lastOp
          /\ lastOp.kind = "StackAdd" =>
                dialogs' = WithFlags(dialogs, LAMBDA i : dialogs[i].id = lastOp.id \/ dialogs[i].open)
          /\ lastOp.kind = "StackRemove" =>
                dialogs' = WithFlags(dialogs, LAMBDA i : dialogs[i].id # lastOp.id /\ dialogs[i].open)
          /\ lastOp.kind = "Close" => dialogs' = WithFlags(dialogs, LAMBDA i : FALSE)
          /\ lastOp.kind = "Trigger" =>
                dialogs' = IF hostOpen /\ ~lastOp.prevented
                           THEN WithFlags(dialogs, LAMBDA i : FALSE)
                           ELSE WithFlags(dialogs, LAMBDA i : dialogs[i].id = lastOp.id \/ dialogs[i].open)

C19_QueuedThenCommitted == []C19_NeverBlocked /\ [][C19_QueueStep]_vars

\* The handler of StackAdd has returned with open("first") queued, and the
\* descriptor is still closed in the registry.
C19_Witness ==
    /\ lastOp = Op("StackAdd", "first")
    /\ pending = <<Call("openDialog", "first")>>
    /\ "first" \in IdsOf(dialogs) /\ ~IsOpen(dialogs, "first")

(***************************************************************************)
(* C13. A stack-aware component (Trigger, StackAdd, StackRemove, Stack,    *)
(* StackContent, StackTitle, StackDescription) used where no registry      *)
(* context exists fails with an error as soon as it is rendered, before    *)
(* any registry operation is performed; inside a Root the same components  *)
(* never raise this error.                                                 *)
(***************************************************************************)
C13_Thrown ==
    /\ lastOp.kind = "render" /\ lastOp.component \in StackAware =>
          (lastOp.error = ContextError <=> lastOp.site = <<>>)
    /\ lastOp.kind = "render" /\ lastOp.site # <<>> => lastOp.error = NoError
    /\ lastOp.kind # "render" => lastOp.error = NoError /\ lastOp.site # <<>>
    /\ \A id \in OpIds :
          /\ ~ENABLED StackAddAt(<<>>, id) /\ ~ENABLED StackRemoveAt(<<>>, id)
          /\ \A enclosing \in Sites \ {<<>>} :
                ENABLED StackAddAt(enclosing, id) /\ ENABLED StackRemoveAt(enclosing, id)

C13_RenderStep ==
    lastOp'.kind = "render" => dialogs' = dialogs /\ other' = other /\ hostOpen' = hostOpen

C13_FailsOutsideRoot == []C13_Thrown /\ [][C13_RenderStep]_vars

\* A StackAdd has just been rendered outside every Root and has thrown.
C13_Witness ==
    /\ lastOp.kind = "render"
    /\ lastOp.component = "DialogStackAdd"
    /\ lastOp.site = <<>>
    /\ lastOp.error = ContextError

(***************************************************************************)
(* C18. Each Root owns its registry: with two Roots, side by side or       *)
(* nested, an open, close, clearAll or host close on one registry leaves   *)
(* every descriptor of the other registry as it was, even when both use    *)
(* the same ids; a stack-aware component acts on the registry of the       *)
(* nearest Root around it only.                                            *)
(***************************************************************************)
\* The registry a step on descriptors `ds` must leave behind, by the kind of
\* the handler
Expected(op, ds) ==
    CASE op.kind = "StackAdd"    -> WithFlags(ds, LAMBDA i : ds[i].id = op.id \/ ds[i].open)
      [] op.kind = "StackRemove" -> WithFlags(ds, LAMBDA i : ds[i].id # op.id /\ ds[i].open)
      [] op.kind = "Close"       -> WithFlags(ds, LAMBDA i : FALSE)
      [] OTHER                   -> ds

C18_OwnRegistryStep ==
    lastOp'.kind \in {"StackAdd", "StackRemove", "Close"} =>
        LET nearest == lastOp'.site[Len(lastOp'.site)] IN
        /\ nearest = 1 =>
              /\ other' = other
              /\ dialogs' = Expected(lastOp', dialogs)
        /\ nearest = 2 =>
              /\ dialogs' = dialogs /\ hostOpen' = hostOpen
              /\ other'.dialogs = Expected(lastOp', other.dialogs)

C18_OwnRegistry == [][C18_OwnRegistryStep]_vars

\* A StackAdd inside Root 2, itself nested in Root 1, has opened "first" in
\* Root 2's registry; Root 1's descriptor of the same id is still closed.
C18_Witness ==
    /\ lastOp.kind = "StackAdd" /\ lastOp.id = "first" /\ lastOp.site = <<1, 2>>
    /\ IsOpen(other.dialogs, "first")
    /\ "first" \in IdsOf(dialogs) /\ ~IsOpen(dialogs, "first")

(***************************************************************************)
(* C21. When a handler issues several registry mutations before the next   *)
(* render (a Trigger click on an open host: open(id), then the clearAll of *)
(* the host close; an outside pointer: clearAll twice), the committed      *)
(* registry is the one obtained by applying them one after another, in the *)
(* order of issue, to the registry before the handler: none is lost, none  *)
(* is computed from a stale snapshot.                                      *)
(***************************************************************************)
\* The registry after the mutations among `calls`, taken one at a time from
\* the first to the last, each applied to the result of the one before
RECURSIVE InIssueOrder(_, _)
InIssueOrder(ds, calls) ==
    IF calls = <<>> THEN ds
    ELSE LET c == Head(calls)
             next == CASE c.call = "openDialog" ->
                             WithFlags(ds, LAMBDA i : ds[i].id = c.id \/ ds[i].open)
                       [] c.call = "closeDialog" ->
                             WithFlags(ds, LAMBDA i : ds[i].id # c.id /\ ds[i].open)
                       [] c.call = "clearDialogs" ->
                             WithFlags(ds, LAMBDA i : FALSE)
                       [] OTHER -> ds
         IN  InIssueOrder(next, Tail(calls))

C21_CommitStep ==
    pending # <<>> =>
        /\ dialogs' = InIssueOrder(dialogs, pending)
        /\ Len(Mutations(pending)) >= 2 =>
              /\ Mutations(pending)[Len(Mutations(pending))].call = "clearDialogs"
              /\ OpenIndices(dialogs') = {}

\* What the handler's calls were is what its event does as a whole.
C21_Issued ==
    pending # <<>> =>
        /\ lastOp.kind = "Trigger" =>
              applyCalls(dialogs, pending) =
                  (IF lastOp.prevented
                   THEN (IF lastOp.id = NoId THEN dialogs ELSE openDialog(dialogs, lastOp.id))
                   ELSE handleOpenChange(IF lastOp.id = NoId THEN dialogs
                                         ELSE openDialog(dialogs, lastOp.id), ~hostOpen))
        /\ lastOp.kind = "PointerDownOutside" =>
              applyCalls(dialogs, pending) =
                  (IF lastOp.prevented THEN pointerDownOutside(dialogs, lastOp.overridden)
                   ELSE handleOpenChange(pointerDownOutside(dialogs, lastOp.overridden), FALSE))

C21_BatchedInOrder == []C21_Issued /\ [][C21_CommitStep]_vars

\* A Trigger click on the open host has issued open("second") and then
\* clearAll, with "first" open and "second" closed in the registry, and the
\* render is about to run them.
C21_Witness ==
    /\ lastOp = Op("Trigger", "second")
    /\ hostOpen
    /\ Mutations(pending) = <<Call("openDialog", "second"), Call("clearDialogs", NoId)>>
    /\ IsOpen(dialogs, "first") /\ "second" \in IdsOf(dialogs) /\ ~IsOpen(dialogs, "second")

(***************************************************************************)
(* C22. The registry and the computed stack depend only on which           *)
(* descriptors are open, not on the order in which they were opened: for   *)
(* distinct ids a and b, open(a);open(b) and open(b);open(a) give the same *)
(* registry and the same positions and z-indices, and any operation on a   *)
(* commutes with any operation on b.                                       *)
(***************************************************************************)
\* The stack is computed from the registry alone, so equal registries have
\* equal stacks.
C22_Commute ==
    \A a, b \in OpIds :
        a # b =>
            /\ openDialog(openDialog(dialogs, a), b) = openDialog(openDialog(dialogs, b), a)
            /\ closeDialog(closeDialog(dialogs, a), b) = closeDialog(closeDialog(dialogs, b), a)
            /\ closeDialog(openDialog(dialogs, a), b) = openDialog(closeDialog(dialogs, b), a)

\* The stack is settled by the open flags alone: the item of an open
\* descriptor has as its position the number of open descriptors after it
\* in the registry, whatever the order of the opens was.
C22_ByOpenSetOnly ==
    LET view == Stack(dialogs)
        open == OpenIndices(dialogs)
    IN  /\ Fixed(dialogs) = initialDialogs
        /\ \A k \in 1..Len(view) :
              \E i \in open :
                  /\ view[k].id = dialogs[i].id
                  /\ view[k].position = Cardinality({j \in open : j > i})
                  /\ view[k].animate.zIndex = Cardinality(open) - view[k].position

C22_OrderIndependent == C22_Commute /\ C22_ByOpenSetOnly

\* Of three descriptors the second was opened before the first, the third
\* is closed, and the host shows the stack.
C22_Witness ==
    /\ hostOpen
    /\ lastOp = Op("StackAdd", "first")
    /\ Len(dialogs) = 3
    /\ openOrder = <<2, 1>>
    /\ dialogs[1].id = "first" /\ dialogs[2].id = "second"
    /\ OpenIndices(dialogs) = {1, 2}

(***************************************************************************)
(* C23. For an uncontrolled host that starts closed with every descriptor  *)
(* closed, and with StackAdd and StackRemove clicked only while the host   *)
(* is open, every committed state has: host closed implies no descriptor   *)
(* open; after any sequence of Trigger clicks (with or without dialogId,   *)
(* on a closed or an open host), StackAdd and StackRemove clicks, outside  *)
(* pointer interactions and host dismissals.                               *)
(***************************************************************************)
C23_ClosedHostEmpty == ~hostOpen => OpenIndices(dialogs) = {}

=============================================================================
